---- MODULE Spec2Model ----
(***************************************************************************)
(* A model of elia_chat/config.py and elia_chat/themes.py.                 *)
(*                                                                         *)
(* The components are modelled each under its own specification:           *)
(*   Spec        LaunchConfig and the ELIA_SYSTEM_PROMPT default           *)
(*   SpecFrozen  LaunchConfig, its model lists and what a holder can do    *)
(*   SpecModel   EliaChatModel and lookup_key                              *)
(*   SpecThemes  Theme, load_user_themes and BUILTIN_THEMES                *)
(*                                                                         *)
(* Representation.                                                         *)
(*   Optional values (`str | None`): None is <<>>, a set value s is <<s>>. *)
(*   Keyword arguments and YAML mappings: functions from the keys given.   *)
(*   system_prompt and ELIA_SYSTEM_PROMPT: sequences of characters, so     *)
(*   that str.strip() is computed.  Other strings are TLA+ strings.        *)
(***************************************************************************)
EXTENDS Integers, Sequences, FiniteSets, TLC

VARIABLES
    environ,                \* os.environ.get("ELIA_SYSTEM_PROMPT"): None or <<value>>
    system_prompt_default,  \* LaunchConfig.system_prompt's Field default: None until
                            \* elia_chat.config is imported, then <<value>>
    config,                 \* the LaunchConfig the holder has: <<>> or <<instance>>
    last,                   \* the last operation: [op, raised, kwargs]
    catalog,                \* what the last get_builtin_models() call returned
    model_kwargs,           \* keyword arguments of an EliaChatModel(...) call
    model,                  \* the EliaChatModel constructed: <<>> or <<instance>>
    key,                    \* the last value read from model.lookup_key
    theme_dir,              \* theme_directory().iterdir(), in iteration order
    themes_module,          \* elia_chat.themes' BUILTIN_THEMES: None until imported
    loaded,                 \* the outcome of the last load_user_themes() call
    opened                  \* the paths load_user_themes() opened in that call

vars == <<environ, system_prompt_default, config, last, catalog,
          model_kwargs, model, key, theme_dir, themes_module, loaded, opened>>

modelVars == <<model_kwargs, model, key>>
themeVars == <<theme_dir, themes_module, loaded, opened>>

----------------------------------------------------------------------------
(* Bounds *)

\* longest ELIA_SYSTEM_PROMPT value and explicit system_prompt argument
MaxPromptLen == 1
\* longest user-declared `models` list, and most in-place appends to a list
MaxModels == 1
\* most files in the theme directory
MaxFiles == 2

----------------------------------------------------------------------------
(* Python values *)

None == <<>>
Some(x) == <<x>>
EmptyDict == [k \in {} |-> None]

\* kwargs.get(k, d)
Get(kw, k, d) == IF k \in DOMAIN kw THEN kw[k] ELSE d

\* characters of the modelled prompts; Whitespace is what str.strip() removes
Chars == {" ", "f"}
Whitespace == {" ", "\t", "\n", "\r"}

Strings(n) == UNION {[1..k -> Chars] : k \in 0..n}

RECURSIVE lstrip(_)
lstrip(s) ==
    IF s # <<>> /\ Head(s) \in Whitespace THEN lstrip(Tail(s)) ELSE s

RECURSIVE rstrip(_)
rstrip(s) ==
    IF s # <<>> /\ s[Len(s)] \in Whitespace
    THEN rstrip(SubSeq(s, 1, Len(s) - 1))
    ELSE s

\* str.strip()
strip(s) == rstrip(lstrip(s))

----------------------------------------------------------------------------
(* config.py: EliaChatModel *)

\* EliaChatModel(**kw): `name` is the one required field; every other field
\* has a default.  No validator constrains name or id beyond their type.
EliaChatModel(kw) ==
    IF "name" \notin DOMAIN kw
    THEN [raised |-> TRUE, error |-> "ValidationError", value |-> None]
    ELSE [raised |-> FALSE, error |-> "",
          value |-> Some(
            [name |-> kw["name"],
             id |-> Get(kw, "id", None),
             display_name |-> Get(kw, "display_name", None),
             provider |-> Get(kw, "provider", None),
             api_key |-> Get(kw, "api_key", None),
             api_base |-> Get(kw, "api_base", None),
             organization |-> Get(kw, "organization", None),
             description |-> Get(kw, "description", None),
             product |-> Get(kw, "product", None),
             temperature |-> Get(kw, "temperature", "1.0"),
             max_retries |-> Get(kw, "max_retries", 0)])]

\* a mutant of lookup_key: the id is ignored
lookup_key_name_only(m) == m.name

\* `self.id or self.name`: None and "" are both falsy
lookup_key(m) ==
    IF m.id # None /\ m.id[1] # "" THEN m.id[1] ELSE m.name

\* a builtin entry: the constructor call of the table, which cannot fail
Builtin(kw) == EliaChatModel(kw).value[1]

\* a mutant of get_builtin_openai_models: the second entry repeats the first id
get_builtin_openai_models_dup ==
    << Builtin([id |-> Some("elia-gpt-4.1"), name |-> "gpt-4.1",
                display_name |-> Some("GPT-4.1"), provider |-> Some("OpenAI"),
                product |-> Some("ChatGPT"),
                description |-> Some("Flagship GPT model for complex tasks."),
                temperature |-> "0.7"]),
       Builtin([id |-> Some("elia-gpt-4.1"), name |-> "gpt-4o",
                display_name |-> Some("GPT-4o"), provider |-> Some("OpenAI"),
                product |-> Some("ChatGPT"),
                description |-> Some("Fast, intelligent, flexible GPT model."),
                temperature |-> "0.7"]),
       Builtin([id |-> Some("elia-o4-mini"), name |-> "o4-mini",
                display_name |-> Some("o4-mini"), provider |-> Some("OpenAI"),
                product |-> Some("ChatGPT"),
                description |-> Some("Faster, more affordable reasoning model")]) >>

get_builtin_openai_models ==
    << Builtin([id |-> Some("elia-gpt-4.1"), name |-> "gpt-4.1",
                display_name |-> Some("GPT-4.1"), provider |-> Some("OpenAI"),
                product |-> Some("ChatGPT"),
                description |-> Some("Flagship GPT model for complex tasks."),
                temperature |-> "0.7"]),
       Builtin([id |-> Some("elia-gpt-4o"), name |-> "gpt-4o",
                display_name |-> Some("GPT-4o"), provider |-> Some("OpenAI"),
                product |-> Some("ChatGPT"),
                description |-> Some("Fast, intelligent, flexible GPT model."),
                temperature |-> "0.7"]),
       Builtin([id |-> Some("elia-o4-mini"), name |-> "o4-mini",
                display_name |-> Some("o4-mini"), provider |-> Some("OpenAI"),
                product |-> Some("ChatGPT"),
                description |-> Some("Faster, more affordable reasoning model")]) >>

get_builtin_anthropic_models ==
    << Builtin([id |-> Some("elia-claude-3-7-sonnet-20250219"),
                name |-> "claude-3-7-sonnet-20250219",
                display_name |-> Some("Claude 3.7 Sonnet"),
                provider |-> Some("Anthropic"), product |-> Some("Claude 3.7"),
                description |-> Some("Anthropic's most intelligent model with extended thinking capabilities")]),
       Builtin([id |-> Some("elia-claude-3-5-sonnet-20241022"),
                name |-> "claude-3-5-sonnet-20241022",
                display_name |-> Some("Claude 3.5 Sonnet"),
                provider |-> Some("Anthropic"), product |-> Some("Claude 3.5 Sonnet"),
                description |-> Some("Anthropic's previous most intelligent model.")]),
       Builtin([id |-> Some("elia-claude-3-5-haiku-20241022"),
                name |-> "claude-3-5-haiku-20241022",
                display_name |-> Some("Claude 3.5 Haiku"),
                provider |-> Some("Anthropic"), product |-> Some("Claude 3.5 Haiku"),
                description |-> Some("Anthropic's fastest and most cost-effective model.")]) >>

get_builtin_google_models ==
    << Builtin([id |-> Some("elia-gemini-2.5-pro-preview-05-06"),
                name |-> "gemini-2.5-pro-preview-05-06",
                display_name |-> Some("Gemini 2.5 Pro Preview"),
                provider |-> Some("Google"), product |-> Some("Gemini"),
                description |-> Some("Google's most powerful thinking model.")]),
       Builtin([id |-> Some("elia-gemini-2.5-flash-preview-05-20"),
                name |-> "gemini-2.5-flash-preview-05-20",
                display_name |-> Some("Gemini 2.5 Flash Preview"),
                provider |-> Some("Google"), product |-> Some("Gemini"),
                description |-> Some("Google's first hybrid reasoning model with thinking budgets.")]) >>

get_builtin_models ==
    get_builtin_openai_models \o get_builtin_anthropic_models
        \o get_builtin_google_models

----------------------------------------------------------------------------
(* config.py: LaunchConfig *)

\* the second argument of os.getenv at config.py:161
FallbackPrompt ==
    <<"Y", "o", "u", " ", "a", "r", "e", " ", "a", " ", "h", "e", "l", "p",
      "f", "u", "l", " ", "a", "s", "s", "i", "s", "t", "a", "n", "t", " ",
      "n", "a", "m", "e", "d", " ", "E", "l", "i", "a", ".">>

\* os.getenv(name, default) of the variable's current value
getenv(env, default) == IF env # None THEN env[1] ELSE default

\* the Field defaults that are literals (default_model, message_code_theme, theme)
LaunchConfigDefaults ==
    [default_model |-> "elia-gpt-4.1",
     message_code_theme |-> "monokai",
     theme |-> "nebula"]

\* @field_validator("system_prompt"): `not value or value.strip() == ""`
non_empty(value) ==
    IF value = <<>> \/ strip(value) = <<>>
    THEN [raised |-> TRUE, value |-> value]
    ELSE [raised |-> FALSE, value |-> value]

\* LaunchConfig(**kw), as pydantic's BaseModel builds it.  A field that is not
\* passed takes its default (or its default_factory's result) and a default is
\* not validated (validate_default is off), so non_empty runs on a passed
\* system_prompt only.  Field(init=False) has a meaning for dataclasses only:
\* on a BaseModel builtin_models is accepted like any other field.  The lists
\* of the instance are new lists, shared with no caller and no other instance.
LaunchConfigInit(kw, prompt_default) ==
    LET given == "system_prompt" \in DOMAIN kw
        checked == IF given THEN non_empty(kw["system_prompt"])
                   ELSE [raised |-> FALSE, value |-> prompt_default]
    IN  IF checked.raised
        THEN [raised |-> TRUE, error |-> "ValidationError", value |-> None]
        ELSE [raised |-> FALSE, error |-> "",
              value |-> Some(
                [default_model |->
                    Get(kw, "default_model", LaunchConfigDefaults.default_model),
                 system_prompt |-> checked.value,
                 message_code_theme |->
                    Get(kw, "message_code_theme",
                        LaunchConfigDefaults.message_code_theme),
                 models |-> Get(kw, "models", <<>>),
                 builtin_models |-> Get(kw, "builtin_models", get_builtin_models),
                 theme |-> Get(kw, "theme", LaunchConfigDefaults.theme)])]

\* the all_models property
all_models(c) == c.models \o c.builtin_models

\* the values ELIA_SYSTEM_PROMPT can have: unset, or a string
EnvValues == {None} \cup {Some(s) : s \in Strings(MaxPromptLen)}

\* a model a user declares in `models`
UserModel == EliaChatModel([name |-> "llama3", id |-> Some("my-llama")]).value[1]

UserModelLists == UNION {[1..k -> {UserModel}] : k \in 0..MaxModels}

\* keyword arguments that name system_prompt or nothing
PromptKwargs ==
    {EmptyDict} \cup {[system_prompt |-> s] : s \in Strings(MaxPromptLen)}

\* keyword arguments that name the other fields
FieldKwargs ==
    {EmptyDict, [theme |-> "galaxy"], [default_model |-> "my-llama"],
     [message_code_theme |-> "dracula"], [system_prompt |-> <<"f">>]}
    \cup {[models |-> l] : l \in UserModelLists}
    \cup {[builtin_models |-> l] : l \in UserModelLists}
    \cup {[models |-> l, builtin_models |-> <<>>, theme |-> "galaxy"] :
            l \in UserModelLists}

Op(name, raised, kwargs) == [op |-> name, raised |-> raised, kwargs |-> kwargs]

ConfigInit ==
    /\ environ \in EnvValues
    /\ system_prompt_default = None
    /\ config = None
    /\ last = Op("start", FALSE, {})
    /\ catalog = None

ModelIdle == model_kwargs = EmptyDict /\ model = None /\ key = None
ThemesIdle ==
    theme_dir = <<>> /\ themes_module = None /\ loaded = None /\ opened = <<>>

\* `import elia_chat.config`: the class body runs once, and with it the
\* os.getenv call that is the system_prompt Field's default
ImportConfig ==
    /\ system_prompt_default = None
    /\ system_prompt_default' = Some(getenv(environ, FallbackPrompt))
    /\ last' = Op("import", FALSE, {})
    /\ UNCHANGED <<environ, config, catalog, modelVars, themeVars>>

\* os.environ["ELIA_SYSTEM_PROMPT"] = v, or del os.environ[...] (v = None)
Setenv(v) ==
    /\ environ # v
    /\ environ' = v
    /\ last' = Op("setenv", FALSE, {})
    /\ UNCHANGED <<system_prompt_default, config, catalog, modelVars, themeVars>>

\* LaunchConfig(**kw): the holder keeps the new instance, or the one it had
\* when the construction raises
Construct(kw) ==
    /\ system_prompt_default # None
    /\ LET r == LaunchConfigInit(kw, system_prompt_default[1])
       IN  /\ config' = IF r.raised THEN config ELSE r.value
           /\ last' = Op("LaunchConfig", r.raised, DOMAIN kw)
    /\ UNCHANGED <<environ, system_prompt_default, catalog, modelVars, themeVars>>

\* LaunchConfig.get_current(): cls()
get_current ==
    /\ system_prompt_default # None
    /\ LET r == LaunchConfigInit(EmptyDict, system_prompt_default[1])
       IN  /\ config' = IF r.raised THEN config ELSE r.value
           /\ last' = Op("get_current", r.raised, {})
    /\ UNCHANGED <<environ, system_prompt_default, catalog, modelVars, themeVars>>

Init == ConfigInit /\ ModelIdle /\ ThemesIdle

Next ==
    \/ ImportConfig
    \/ \E v \in EnvValues : Setenv(v)
    \/ \E kw \in PromptKwargs : Construct(kw)
    \/ get_current

Spec == Init /\ [][Next]_vars

----------------------------------------------------------------------------
(* config.py: what the holder of a LaunchConfig can do with it *)

LaunchConfigFields ==
    {"default_model", "system_prompt", "message_code_theme", "models",
     "builtin_models", "theme"}

\* values a holder may try to assign to a field
AssignedValues ==
    [default_model |-> "my-llama", system_prompt |-> <<"f">>,
     message_code_theme |-> "dracula", models |-> <<>>,
     builtin_models |-> <<>>, theme |-> "galaxy"]

\* a mutant of SetAttr: the model is not frozen and the assignment is made
SetAttr_not_frozen(field) ==
    /\ config # None
    /\ config' = Some([config[1] EXCEPT ![field] = AssignedValues[field]])
    /\ last' = Op("setattr", FALSE, {field})
    /\ UNCHANGED <<environ, system_prompt_default, catalog, modelVars, themeVars>>

\* `cfg.<field> = value` on a model with ConfigDict(frozen=True): pydantic
\* raises and assigns nothing
SetAttr(field) ==
    /\ config # None
    /\ config' = config
    /\ last' = Op("setattr", TRUE, {field})
    /\ UNCHANGED <<environ, system_prompt_default, catalog, modelVars, themeVars>>

\* `cfg.models.append(m)` / `cfg.builtin_models.append(m)`: frozen guards the
\* attribute, not the list object the attribute holds
ListAppend(field, m) ==
    /\ config # None
    /\ Len(config[1][field]) <
         (IF field = "models" THEN 0 ELSE Len(get_builtin_models)) + MaxModels
    /\ config' = Some([config[1] EXCEPT ![field] = Append(@, m)])
    /\ last' = Op("append", FALSE, {field})
    /\ UNCHANGED <<environ, system_prompt_default, catalog, modelVars, themeVars>>

\* `cfg.models.clear()` / `cfg.builtin_models.clear()`
ListClear(field) ==
    /\ config # None
    /\ config[1][field] # <<>>
    /\ config' = Some([config[1] EXCEPT ![field] = <<>>])
    /\ last' = Op("clear", FALSE, {field})
    /\ UNCHANGED <<environ, system_prompt_default, catalog, modelVars, themeVars>>

\* a call of get_builtin_models(); the caller keeps the list returned
CallGetBuiltinModels ==
    /\ system_prompt_default # None
    /\ catalog' = Some(get_builtin_models)
    /\ last' = Op("get_builtin_models", FALSE, {})
    /\ UNCHANGED <<environ, system_prompt_default, config, modelVars, themeVars>>

InitFrozen ==
    /\ environ \in {None, Some(<<"f">>)}
    /\ system_prompt_default = None
    /\ config = None
    /\ last = Op("start", FALSE, {})
    /\ catalog = None
    /\ ModelIdle
    /\ ThemesIdle

NextFrozen ==
    \/ ImportConfig
    \/ \E kw \in FieldKwargs : Construct(kw)
    \/ get_current
    \/ \E field \in LaunchConfigFields : SetAttr(field)
    \/ \E field \in {"models", "builtin_models"} : ListAppend(field, UserModel)
    \/ \E field \in {"models", "builtin_models"} : ListClear(field)
    \/ CallGetBuiltinModels

SpecFrozen == InitFrozen /\ [][NextFrozen]_vars

----------------------------------------------------------------------------
(* Claims about LaunchConfig and the catalog *)

Constructions == {"LaunchConfig", "get_current"}
HolderOps == {"setattr", "append", "clear"}

\* C1: every LaunchConfig that exists, however its system_prompt was
\* supplied (passed, or the default taken from ELIA_SYSTEM_PROMPT or the
\* fallback), has a system_prompt that is non-empty after trimming.
C1_PromptNeverBlank ==
    config # None => strip(config[1].system_prompt) # <<>>

\* C2: a LaunchConfig constructed without an explicit system_prompt has the
\* value ELIA_SYSTEM_PROMPT has at the moment of the construction, or the
\* fixed fallback when the variable is unset at that moment.
C2_PromptFromCurrentEnv ==
    (/\ last.op \in Constructions
     /\ ~last.raised
     /\ "system_prompt" \notin last.kwargs)
    => config[1].system_prompt = getenv(environ, FallbackPrompt)

\* C6: whatever arguments a successful construction was given, the new
\* config's builtin_models is the sequence get_builtin_models() returns and
\* all_models is the user-declared models followed by that catalog.
C6_BuiltinNotSettable ==
    (last.op \in Constructions /\ ~last.raised)
    => /\ config[1].builtin_models = get_builtin_models
       /\ all_models(config[1]) = config[1].models \o get_builtin_models

ProviderOrder(c) ==
    \E a \in 0..Len(c) : \E b \in a..Len(c) :
        \A i \in 1..Len(c) :
            c[i].provider =
                Some(IF i <= a THEN "OpenAI"
                     ELSE IF i <= b THEN "Anthropic" ELSE "Google")

\* C8: every call of get_builtin_models() returns the same sequence, OpenAI
\* entries then Anthropic entries then Google entries, whose ids are all set
\* and pairwise distinct, exactly one of them being LaunchConfig's default
\* default_model.
C8_Catalog ==
    /\ [](catalog # None =>
            LET c == catalog[1] IN
            /\ ProviderOrder(c)
            /\ \A i \in 1..Len(c) : c[i].id # None
            /\ \A i, j \in 1..Len(c) : c[i].id = c[j].id => i = j
            /\ Cardinality({i \in 1..Len(c) :
                    c[i].id = Some(LaunchConfigDefaults.default_model)}) = 1)
    /\ [][(catalog # None /\ catalog' # None) => catalog' = catalog]_vars

\* C8 witness: get_builtin_models() has been called and returned its entries
C8_Witness ==
    /\ last.op = "get_builtin_models"
    /\ catalog # None
    /\ Len(catalog[1]) > 1

----------------------------------------------------------------------------
(* config.py: constructing an EliaChatModel and reading its lookup_key *)

\* keyword arguments of the modelled EliaChatModel(...) calls: name and id
\* range over empty and non-empty strings, id also over None and not passed
ModelKwargs ==
    LET names == {"", "gpt-4o", "llama3"}
        ids == {None, Some(""), Some("work"), Some("gpt-4o")}
        base == {EmptyDict} \cup {[name |-> n] : n \in names}
        withId == base \cup {kw @@ [id |-> i] : kw \in base, i \in ids}
        withProvider ==
            withId \cup {kw @@ [provider |-> Some("OpenAI")] : kw \in withId}
    IN  withProvider \cup
            {kw @@ [display_name |-> Some("GPT")] : kw \in withProvider}

InitModel ==
    /\ model_kwargs \in ModelKwargs
    /\ model = None
    /\ key = None
    /\ environ = None
    /\ system_prompt_default = None
    /\ config = None
    /\ last = Op("start", FALSE, {})
    /\ catalog = None
    /\ ThemesIdle

\* EliaChatModel(**model_kwargs)
ConstructModel ==
    /\ last.op = "start"
    /\ LET r == EliaChatModel(model_kwargs)
       IN  /\ model' = r.value
           /\ last' = Op("EliaChatModel", r.raised, DOMAIN model_kwargs)
    /\ UNCHANGED <<model_kwargs, key, environ, system_prompt_default, config,
                   catalog, themeVars>>

\* `model.lookup_key`
ReadLookupKey ==
    /\ model # None
    /\ key = None
    /\ key' = Some(lookup_key(model[1]))
    /\ last' = Op("lookup_key", FALSE, {})
    /\ UNCHANGED <<model_kwargs, model, environ, system_prompt_default, config,
                   catalog, themeVars>>

NextModel == ConstructModel \/ ReadLookupKey

SpecModel == InitModel /\ [][NextModel]_vars

----------------------------------------------------------------------------
(* themes.py: Theme and BUILTIN_THEMES *)

\* Theme(**kw): name, primary and variables are declared without a default
\* and are required; the optional colours default to None and dark to True
Theme(kw) ==
    IF ~({"name", "primary", "variables"} \subseteq DOMAIN kw)
    THEN [raised |-> TRUE, error |-> "ValidationError", value |-> None]
    ELSE [raised |-> FALSE, error |-> "",
          value |-> Some(
            [name |-> kw["name"],
             primary |-> kw["primary"],
             secondary |-> Get(kw, "secondary", None),
             background |-> Get(kw, "background", None),
             surface |-> Get(kw, "surface", None),
             panel |-> Get(kw, "panel", None),
             warning |-> Get(kw, "warning", None),
             error |-> Get(kw, "error", None),
             success |-> Get(kw, "success", None),
             accent |-> Get(kw, "accent", None),
             dark |-> Get(kw, "dark", TRUE),
             variables |-> kw["variables"]])]

\* a Theme(...) call of the builtin table; each passes the required fields
BuiltinTheme(kw) == Theme(kw).value[1]

\* the entries of the BUILTIN_THEMES dict literal
BuiltinThemeEntries ==
    [textual |->
        BuiltinTheme([name |-> "textual", primary |-> "#004578",
                secondary |-> Some("#0178D4"), warning |-> Some("#ffa62b"),
                error |-> Some("#ba3c5b"), success |-> Some("#4EBF71"),
                accent |-> Some("#ffa62b"), dark |-> TRUE,
                variables |-> EmptyDict]),
     monokai |->
        BuiltinTheme([name |-> "monokai", primary |-> "#F92672",
                secondary |-> Some("#66D9EF"), warning |-> Some("#FD971F"),
                error |-> Some("#F92672"), success |-> Some("#A6E22E"),
                accent |-> Some("#AE81FF"), background |-> Some("#272822"),
                surface |-> Some("#3E3D32"), panel |-> Some("#3E3D32"),
                dark |-> TRUE, variables |-> EmptyDict]),
     nautilus |->
        BuiltinTheme([name |-> "nautilus", primary |-> "#0077BE",
                secondary |-> Some("#20B2AA"), warning |-> Some("#FFD700"),
                error |-> Some("#FF6347"), success |-> Some("#32CD32"),
                accent |-> Some("#FF8C00"), dark |-> TRUE,
                background |-> Some("#001F3F"), surface |-> Some("#003366"),
                panel |-> Some("#005A8C"), variables |-> EmptyDict]),
     galaxy |->
        BuiltinTheme([name |-> "galaxy", primary |-> "#8A2BE2",
                secondary |-> Some("#a684e8"), warning |-> Some("#FFD700"),
                error |-> Some("#FF4500"), success |-> Some("#00FA9A"),
                accent |-> Some("#FF69B4"), dark |-> TRUE,
                background |-> Some("#0F0F1F"), surface |-> Some("#1E1E3F"),
                panel |-> Some("#2D2B55"), variables |-> EmptyDict]),
     nebula |->
        BuiltinTheme([name |-> "nebula", primary |-> "#4169E1",
                secondary |-> Some("#9400D3"), warning |-> Some("#FFD700"),
                error |-> Some("#FF1493"), success |-> Some("#00FF7F"),
                accent |-> Some("#FF00FF"), dark |-> TRUE,
                background |-> Some("#0A0A23"), surface |-> Some("#1C1C3C"),
                panel |-> Some("#2E2E5E"), variables |-> EmptyDict]),
     alpine |->
        BuiltinTheme([name |-> "alpine", primary |-> "#4A90E2",
                secondary |-> Some("#81A1C1"), warning |-> Some("#EBCB8B"),
                error |-> Some("#BF616A"), success |-> Some("#A3BE8C"),
                accent |-> Some("#5E81AC"), dark |-> TRUE,
                background |-> Some("#2E3440"), surface |-> Some("#3B4252"),
                panel |-> Some("#434C5E"), variables |-> EmptyDict]),
     cobalt |->
        BuiltinTheme([name |-> "cobalt", primary |-> "#334D5C",
                secondary |-> Some("#4878A6"), warning |-> Some("#FFAA22"),
                error |-> Some("#E63946"), success |-> Some("#4CAF50"),
                accent |-> Some("#D94E64"), dark |-> TRUE,
                surface |-> Some("#27343B"), panel |-> Some("#2D3E46"),
                background |-> Some("#1F262A"), variables |-> EmptyDict]),
     twilight |->
        BuiltinTheme([name |-> "twilight", primary |-> "#367588",
                secondary |-> Some("#5F9EA0"), warning |-> Some("#FFD700"),
                error |-> Some("#FF6347"), success |-> Some("#00FA9A"),
                accent |-> Some("#FF7F50"), dark |-> TRUE,
                background |-> Some("#191970"), surface |-> Some("#3B3B6D"),
                panel |-> Some("#4C516D"), variables |-> EmptyDict]),
     hacker |->
        BuiltinTheme([name |-> "hacker", primary |-> "#00FF00",
                secondary |-> Some("#32CD32"), warning |-> Some("#ADFF2F"),
                error |-> Some("#FF4500"), success |-> Some("#00FA9A"),
                accent |-> Some("#39FF14"), dark |-> TRUE,
                background |-> Some("#0D0D0D"), surface |-> Some("#1A1A1A"),
                panel |-> Some("#2A2A2A"), variables |-> EmptyDict])]

\* a mutant of BUILTIN_THEMES: one entry is filed under another theme's name
BUILTIN_THEMES_misfiled ==
    [BuiltinThemeEntries EXCEPT !.nebula = BuiltinThemeEntries.galaxy]

\* the module-level dict elia_chat.themes.BUILTIN_THEMES
BUILTIN_THEMES == BuiltinThemeEntries

----------------------------------------------------------------------------
(* themes.py: load_user_themes *)

\* what yaml.load returns for a file: None for an empty document, a mapping
\* (possibly empty), or a non-empty value that is no mapping (here a list)
Documents ==
    {[kind |-> "null"],
     [kind |-> "sequence"],
     [kind |-> "mapping", fields |-> EmptyDict],
     [kind |-> "mapping", fields |-> [primary |-> "#112233"]],
     [kind |-> "mapping", fields |-> [name |-> "foo", primary |-> "#112233"]],
     [kind |-> "mapping", fields |-> [name |-> "foo", variables |-> EmptyDict]],
     [kind |-> "mapping",
      fields |-> [name |-> "foo", primary |-> "#112233", variables |-> EmptyDict]],
     [kind |-> "mapping",
      fields |-> [name |-> "foo", primary |-> "#445566", variables |-> EmptyDict]],
     [kind |-> "mapping",
      fields |-> [name |-> "bar", primary |-> "#112233", variables |-> EmptyDict,
                  dark |-> FALSE]]}

Suffixes == {".yaml", ".yml", ".txt"}

\* the directory listings of at most max files: the file at position i of
\* the iteration is named by its position (the stem) and its suffix
Directories(max) ==
    UNION {
        {[i \in 1..n |-> [path |-> [stem |-> i, suffix |-> f[i].suffix],
                          content |-> f[i].content]] :
            f \in [1..n -> [suffix : Suffixes, content : Documents]]}
        : n \in 0..max}

\* `yaml.load(...) or {}`: None and an empty mapping are falsy
OrEmpty(doc) ==
    IF doc.kind = "null" THEN [kind |-> "mapping", fields |-> EmptyDict] ELSE doc

IsThemeFile(path) == path.suffix = ".yaml" \/ path.suffix = ".yml"

Returned(t) == [status |-> "returned", themes |-> t, error |-> "", message |-> None]
Raised(e, msg) == [status |-> "raised", themes |-> None, error |-> e, message |-> msg]

\* a mutant of StoreTheme: a name already in the mapping keeps its first Theme
StoreTheme_first_wins(t, name, theme) ==
    [k \in DOMAIN t \cup {name} |-> IF k \in DOMAIN t THEN t[k] ELSE theme]

\* themes[name] = theme
StoreTheme(t, name, theme) ==
    [k \in DOMAIN t \cup {name} |-> IF k = name THEN theme ELSE t[k]]

\* the body of the loop for one theme file.  In
\*     themes[theme_content["name"]] = Theme(**theme_content)
\* Python evaluates the right-hand side first: Theme(**theme_content) raises
\* TypeError when the content is no mapping and pydantic's ValidationError when
\* a required field (name included) is missing; neither is a KeyError, so
\* neither is turned into the ValueError that names the path.  The subscript
\* theme_content["name"] is evaluated only after Theme(...) has succeeded.
LoadFile(t, file) ==
    LET theme_content == OrEmpty(file.content)
    IN  IF theme_content.kind # "mapping"
        THEN Raised("TypeError", None)
        ELSE LET r == Theme(theme_content.fields)
             IN  IF r.raised
                 THEN Raised(r.error, None)
                 ELSE IF "name" \notin DOMAIN theme_content.fields
                      THEN Raised("ValueError", Some(file.path))
                      ELSE Returned(StoreTheme(t, theme_content.fields["name"],
                                               r.value[1]))

\* load_user_themes() from position i of the listing on, with the mapping t
\* accumulated and the paths o opened so far
RECURSIVE LoadFrom(_, _, _, _)
LoadFrom(dir, i, t, o) ==
    IF i > Len(dir)
    THEN [outcome |-> Returned(t), opened |-> o]
    ELSE IF ~IsThemeFile(dir[i].path)
         THEN LoadFrom(dir, i + 1, t, o)
         ELSE LET r == LoadFile(t, dir[i])
                  o2 == Append(o, dir[i].path)
              IN  IF r.status = "raised"
                  THEN [outcome |-> r, opened |-> o2]
                  ELSE LoadFrom(dir, i + 1, r.themes, o2)

load_user_themes(dir) == LoadFrom(dir, 1, EmptyDict, <<>>)

InitThemes ==
    /\ theme_dir \in Directories(MaxFiles)
    /\ themes_module = None
    /\ loaded = None
    /\ opened = <<>>
    /\ environ = None
    /\ system_prompt_default = None
    /\ config = None
    /\ last = Op("start", FALSE, {})
    /\ catalog = None
    /\ ModelIdle

\* `import elia_chat.themes`: the module body builds BUILTIN_THEMES
ImportThemes ==
    /\ themes_module = None
    /\ themes_module' = Some(BUILTIN_THEMES)
    /\ last' = Op("import", FALSE, {})
    /\ UNCHANGED <<theme_dir, loaded, opened, environ, system_prompt_default,
                   config, catalog, modelVars>>

\* a call of load_user_themes()
CallLoadUserThemes ==
    /\ themes_module # None
    /\ LET r == load_user_themes(theme_dir)
       IN  /\ loaded' = Some(r.outcome)
           /\ opened' = r.opened
           /\ last' = Op("load_user_themes", r.outcome.status = "raised", {})
    /\ UNCHANGED <<theme_dir, themes_module, environ, system_prompt_default,
                   config, catalog, modelVars>>

NextThemes == ImportThemes \/ CallLoadUserThemes

SpecThemes == InitThemes /\ [][NextThemes]_vars

----------------------------------------------------------------------------
(* Claims about the themes *)

\* the document of a theme file, as the loader sees it (after `or {}`)
Content(file) == OrEmpty(file.content)

\* a .yaml/.yml file whose document is a mapping without a name key, or empty
LacksName(file) ==
    /\ IsThemeFile(file.path)
    /\ Content(file).kind = "mapping"
    /\ "name" \notin DOMAIN Content(file).fields

\* a .yaml/.yml file whose document is a mapping with a name key
DeclaresName(file) ==
    /\ IsThemeFile(file.path)
    /\ Content(file).kind = "mapping"
    /\ "name" \in DOMAIN Content(file).fields

\* a .yaml/.yml file from which a Theme is built
ValidThemeFile(file) ==
    /\ DeclaresName(file)
    /\ ~Theme(Content(file).fields).raised

OptionalColours ==
    {"secondary", "background", "surface", "panel", "warning", "error",
     "success", "accent"}

\* C4: with a single theme file whose document gives name and primary only,
\* load_user_themes() returns a mapping with that name as a key, whose Theme
\* has the primary given, the optional colours unset, dark true and variables
\* empty.
C4_NameAndPrimarySuffice ==
    (/\ loaded # None
     /\ Len(theme_dir) = 1
     /\ DeclaresName(theme_dir[1])
     /\ DOMAIN Content(theme_dir[1]).fields = {"name", "primary"})
    => /\ loaded[1].status = "returned"
       /\ LET f == Content(theme_dir[1]).fields
              t == loaded[1].themes
          IN  /\ f["name"] \in DOMAIN t
              /\ t[f["name"]].primary = f["primary"]
              /\ \A c \in OptionalColours : t[f["name"]][c] = None
              /\ t[f["name"]].dark = TRUE
              /\ t[f["name"]].variables = EmptyDict

\* C5: when a theme file lacks a name key (or is an empty document) and every
\* theme file processed before it is valid, load_user_themes() raises an
\* error whose message contains that file's path and returns no mapping;
\* files with another extension are never opened and never cause an error.
C5_MissingNameNamesPath ==
    loaded # None =>
        /\ \A i \in 1..Len(theme_dir) :
            (/\ LacksName(theme_dir[i])
             /\ \A j \in 1..(i - 1) :
                    IsThemeFile(theme_dir[j].path) => ValidThemeFile(theme_dir[j]))
            => /\ loaded[1].status = "raised"
               /\ loaded[1].message = Some(theme_dir[i].path)
               /\ loaded[1].themes = None
        /\ \A k \in 1..Len(opened) : IsThemeFile(opened[k])
        /\ (\A i \in 1..Len(theme_dir) : ~IsThemeFile(theme_dir[i].path))
            => loaded[1].status = "returned"

\* C9: the builtin theme table has the nine named keys, every entry's name
\* is its key, and LaunchConfig's default theme, "nebula", is a key.
C9_BuiltinThemeNames ==
    themes_module # None =>
        LET t == themes_module[1] IN
        /\ {"textual", "monokai", "nautilus", "galaxy", "nebula", "alpine",
            "cobalt", "twilight", "hacker"} \subseteq DOMAIN t
        /\ \A k \in DOMAIN t : t[k].name = k
        /\ LaunchConfigDefaults.theme = "nebula"
        /\ LaunchConfigDefaults.theme \in DOMAIN t

\* C9 witness: elia_chat.themes has been imported and the table built
C9_Witness ==
    /\ themes_module # None
    /\ Cardinality(DOMAIN themes_module[1]) > 1

\* the positions of the theme files that declare name k
Declaring(k) ==
    {i \in 1..Len(theme_dir) :
        DeclaresName(theme_dir[i]) /\ Content(theme_dir[i]).fields["name"] = k}

\* C10: a mapping load_user_themes() returns has one entry per name the theme
\* files declare, each entry's name is its key, and the entry of a name is
\* the Theme of the file processed last among those declaring it; when every
\* theme file is valid a mapping is returned and nothing is raised.
C10_LastFileWins ==
    loaded # None =>
        /\ (\A i \in 1..Len(theme_dir) :
                IsThemeFile(theme_dir[i].path) => ValidThemeFile(theme_dir[i]))
            => loaded[1].status = "returned"
        /\ loaded[1].status = "returned" =>
            LET t == loaded[1].themes IN
            /\ DOMAIN t = {Content(theme_dir[i]).fields["name"] :
                                i \in {j \in 1..Len(theme_dir) :
                                            DeclaresName(theme_dir[j])}}
            /\ \A i \in 1..Len(theme_dir) :
                    IsThemeFile(theme_dir[i].path) => DeclaresName(theme_dir[i])
            /\ \A k \in DOMAIN t :
                /\ t[k].name = k
                /\ \E i \in Declaring(k) :
                    /\ \A j \in Declaring(k) : j <= i
                    /\ Theme(Content(theme_dir[i]).fields).value = Some(t[k])

\* C10 witness: a mapping was returned from a directory where two theme files
\* declare the same name with different primaries
C10_Witness ==
    /\ loaded # None
    /\ loaded[1].status = "returned"
    /\ \E k \in DOMAIN loaded[1].themes :
        \E i, j \in Declaring(k) :
            /\ i < j
            /\ Content(theme_dir[i]).fields["primary"]
                 # Content(theme_dir[j]).fields["primary"]
            /\ loaded[1].themes[k].primary = Content(theme_dir[j]).fields["primary"]

====
